---- MODULE Spec2Model ----
(***************************************************************************)
(* Silo telemetry backend: ingestion cycle (services/thing_speak.py),      *)
(* notification fan-out (services/notification.py), live connection        *)
(* registry (services/ws.py) and alert acknowledgment (routes/alerts.py).  *)
(*                                                                         *)
(* Encoding of values.  A ThingSpeak feed field is a JSON string or null.  *)
(* A non-negative integer n stands for the decimal string of n; the codes  *)
(* NULL, BAD, NAN and EMPTY stand for JSON null, a non-numeric string, the *)
(* string "nan" and the empty string.  In a normalized document NULL is    *)
(* Python None and NAN is float("nan").  Timestamps are seconds.           *)
(***************************************************************************)
EXTENDS Integers, Sequences, FiniteSets, TLC

NULL == -1000
BAD == -1001
NAN == -1002
EMPTY == -1003
ERR == -1004

\* ------------------------------------------------------------------ config
IDENTICAL_READINGS_MIN_SECONDS == 18000
LUMINOSITY_DARK_THRESHOLD == 10
LUMINOSITY_OPEN_THRESHOLD == 100

\* ------------------------------------------------------------------ bounds
MaxCycles == 2
MaxAcks == 2
MaxRegistryOps == 3
MaxSiloOps == 1
\* calls of the HTTP and WebSocket routes in one behaviour, of any kind
MaxRouteCalls == 2

\* ------------------------------------------------------- reading normalizer
IsNumber(x) == x >= 0

\* float(f.get("field1") or 0.0): null and "" become 0.0, text raises
ParseFloatRequired(x) ==
    IF x = NULL \/ x = EMPTY THEN 0
    ELSE IF x = BAD THEN ERR
    ELSE x

\* float(x) if x is not None else None, any exception gives None
ParseFloatOptional(x) ==
    IF x = NULL \/ x = BAD \/ x = EMPTY THEN NULL ELSE x

\* int(x) if x is not None else None, any exception gives None; int("nan") raises
ParseIntOptional(x) ==
    IF x = NULL \/ x = BAD \/ x = EMPTY \/ x = NAN THEN NULL ELSE x

\* datetime.strptime(created_at, fmt): null or a malformed string raises
ParseTimestamp(x) == IF IsNumber(x) THEN x ELSE ERR

NormalizeRaisesNever(f) == FALSE

\* TRUE when building the document raises (lines 37-82): the record is rejected
NormalizeRaises(f) ==
    \/ ParseFloatRequired(f.field1) = ERR
    \/ ParseFloatRequired(f.field2) = ERR
    \/ ParseTimestamp(f.created_at) = ERR

Normalize(f, silo_id) ==
    [ silo_id          |-> silo_id,
      timestamp        |-> ParseTimestamp(f.created_at),
      temp_C           |-> ParseFloatRequired(f.field1),
      rh_pct           |-> ParseFloatRequired(f.field2),
      co2_ppm_est      |-> ParseFloatOptional(f.field3),
      mq2_raw          |-> ParseIntOptional(f.field4),
      luminosity_alert |-> ParseIntOptional(f.field5),
      lux              |-> ParseFloatOptional(f.field6),
      raw              |-> f ]

\* --------------------------------------------------------------- dedup gate
fields_to_compare ==
    <<"temp_C", "rh_pct", "co2_ppm_est", "mq2_raw", "luminosity_alert", "lux">>

\* Python != on numbers: float("nan") differs from everything, itself included
PyNotEqual(a, b) == a = NAN \/ b = NAN \/ a # b

FieldDiffersValueOnly(last, doc, k) ==
    /\ last[k] # NULL /\ doc[k] # NULL
    /\ PyNotEqual(last[k], doc[k])

\* one iteration of the loop of lines 91-105: does field k clear `identical`?
FieldDiffers(last, doc, k) ==
    \/ (last[k] = NULL /\ doc[k] # NULL)
    \/ (last[k] # NULL /\ doc[k] = NULL)
    \/ (last[k] # NULL /\ doc[k] # NULL /\ PyNotEqual(last[k], doc[k]))

Identical(last, doc) ==
    \A i \in 1..Len(fields_to_compare) :
        ~FieldDiffers(last, doc, fields_to_compare[i])

SuppressedInverted(last, doc) ==
    /\ Identical(last, doc)
    /\ doc.timestamp - last.timestamp > IDENTICAL_READINGS_MIN_SECONDS

SuppressedAnyAge(last, doc) == Identical(last, doc)

\* lines 107-123: the early return of an identical recent reading
Suppressed(last, doc) ==
    /\ Identical(last, doc)
    /\ doc.timestamp - last.timestamp < IDENTICAL_READINGS_MIN_SECONDS


\* -------------------------------------------------------------- the world
SiloIds == {"s1", "s2"}
\* the uuid4 a new silo document gets: an id no stored document has
NewIds == {"s3"}
Roles == {"admin", "operator", "viewer"}
GLOBAL == "null"
Endpoints == {"e1", "e2"}
Listeners == {"w1", "w2"}
Users == {"u1", "u2"}
NOBODY == "nobody"

VARIABLES
    readings,            \* db.readings, in insertion order
    silo_events,         \* db.silo_events, in insertion order
    alerts,              \* db.alerts, in insertion order; _id is the position
    push_subscriptions,  \* db.push_subscriptions: set of [endpoint, silo_id]
    active_connections,  \* ws.manager.active_connections (a list)
    silos,               \* db.silos: silo id -> document
    creds,               \* channel credentials of config.py
    now,                 \* datetime.utcnow()
    cycle,               \* the last step taken; an ended cycle shows what it saw
    dispatches,          \* the notify_alert calls of the cycle that just ended
    mgr,                 \* ws.manager._lock and the broadcast in progress
    inflight,            \* ingestion cycles between their lookup and their last await
    job,                 \* the run of thingspeak_job in progress
    acking,              \* ack_alert calls waiting at update_one
    nCycles, nAcks, nRegistryOps, nSiloOps

RouteBudget == nAcks + nRegistryOps + nSiloOps < MaxRouteCalls

vars == <<readings, silo_events, alerts, push_subscriptions, active_connections,
          silos, creds, now, cycle, dispatches, mgr, inflight, job, acking,
          nCycles, nAcks, nRegistryOps, nSiloOps>>

\* ------------------------------------------------------ notify_alert
ChannelStatusIgnoresCreds(reached, destination, configured, outcome) ==
    IF ~reached THEN "not_reached"
    ELSE IF ~destination THEN "no_destination"
    ELSE outcome

\* outcome of one outbound call when the destination and credentials exist
ChannelStatus(reached, destination, configured, outcome) ==
    IF ~reached THEN "not_reached"
    ELSE IF ~destination THEN "no_destination"
    ELSE IF ~configured THEN "disabled"
    ELSE outcome

\* line 134: send_telegram is awaited outside any try, a raise leaves notify_alert
TelegramAborts(status) == status = "raise"

EmailAbortsOnRaise(status) == status = "raise"

\* lines 139-142: try/except around send_email, a raise is logged
EmailAborts(status) == FALSE

\* lines 147-150: try/except around send_sms_twilio, a raise is logged
SmsAborts(status) == FALSE

\* lines 162-167: the handler runs on any exception of the push send
PushFailed(outcome) == outcome \in {"gone", "transient"}

DeletedSubsNever(failed, env) == {}

\* lines 164-167: delete_one inside try/except-pass, a failing delete is swallowed
DeletedSubs(failed, env) == IF env.delete = "ok" THEN failed ELSE {}

\* ConnectionManager.broadcast: send to a snapshot, drop the failed listeners
BroadcastSent(conns) == {conns[i] : i \in 1..Len(conns)}

BroadcastRemaining(conns, env) ==
    SelectSeq(conns, LAMBDA w : env.ws[w] = "ok")

\* thing_speak.py line 217: the alert document carries
\* "timestamp": datetime.utcnow()
AlertTimestampKind == "datetime"

\* line 170: json.dumps of the broadcast payload, timestamp included; a
\* datetime is not JSON serializable and raises TypeError
JsonDumpsRaises(kind) == kind = "datetime"

\* line 121: notify_alert is entered with the alert just inserted; nothing
\* of it has run yet
Entered(alert_id, silo_id, env, subs, conns) ==
    [ alert      |-> alert_id,
      silo_id    |-> silo_id,
      env        |-> env,
      subs_before  |-> subs,
      conns_before |-> conns,
      silo       |-> silos[silo_id],
      subs_seen  |-> {},
      silo_lookup  |-> "not_reached",
      subs_lookup  |-> "not_reached",
      telegram   |-> "not_reached",
      email      |-> "not_reached",
      sms        |-> "not_reached",
      push       |-> <<>>,
      deleted    |-> {},
      payload    |-> "not_reached",
      broadcast  |-> {},
      raised     |-> FALSE,
      subs       |-> subs,
      conns      |-> conns ]

\* line 153: the subscriptions of the alert's silo and the
\* global ones
Scope(subs, silo_id) == {s \in subs : s.silo_id = silo_id \/ s.silo_id = GLOBAL}

\* lines 169-174, or the exception that leaves notify_alert: the argument of
\* broadcast is built first; its raise is swallowed by the except and
\* broadcast is not called
Returned(d, subs, conns) ==
    LET payload == IF d.raised THEN "not_reached"
                   ELSE IF JsonDumpsRaises(AlertTimestampKind) THEN "raise" ELSE "ok"
        called == payload = "ok"
    IN  [d EXCEPT !.payload = payload,
                  !.broadcast = IF called THEN BroadcastSent(conns) ELSE {},
                  !.subs = subs,
                  !.conns = IF called THEN BroadcastRemaining(conns, d.env) ELSE conns]

\* ------------------------------------------------- threshold rules, ML hook
PyGreater(a, b) == a # NAN /\ b # NAN /\ a > b
PyLessEq(a, b) == a # NAN /\ b # NAN /\ a <= b
PyGreaterEq(a, b) == a # NAN /\ b # NAN /\ a >= b

\* the comparison as it would be with >= for >
BreachAtLimit(value, limit) == limit # NULL /\ value # NULL /\ PyGreaterEq(value, limit)

\* a limit that is set, a value that is present, and the value over the limit
Breach(value, limit) == limit # NULL /\ value # NULL /\ PyGreater(value, limit)

\* utils.apply_threshold_rules: one candidate per breached metric
apply_threshold_rules(doc) ==
    LET t == silos[doc.silo_id].thresholds
    IN  (IF Breach(doc.temp_C, t.max_temp) THEN <<"temperature">> ELSE <<>>)
        \o (IF Breach(doc.rh_pct, t.max_humidity) THEN <<"humidity">> ELSE <<>>)
        \o (IF Breach(doc.co2_ppm_est, t.max_gas) THEN <<"gas">> ELSE <<>>)

Level(rule) == IF rule \in {"silo_opened", "ml"} THEN "warning" ELSE "critical"

NewAlert(silo_id, rule) ==
    [ silo_id      |-> silo_id,
      level        |-> Level(rule),
      rule         |-> rule,
      timestamp    |-> now,
      acknowledged |-> FALSE,
      ack_by       |-> NOBODY,
      ack_at       |-> NULL ]


\* ------------------------------------------------------- fetch_and_store
\* line 86: find({"silo_id": silo_id}).sort("timestamp", -1).limit(1); the
\* positions the query may return, 0 for the empty list
LastCandidates(silo_id) ==
    LET mine == {i \in 1..Len(readings) : readings[i].silo_id = silo_id}
        newest == {i \in mine : \A j \in mine : readings[j].timestamp <= readings[i].timestamp}
    IN  IF mine = {} THEN {0} ELSE newest

TransitionAnyPrior(prev_lux, lux) ==
    prev_lux # NULL /\ lux # NULL /\ PyGreaterEq(lux, LUMINOSITY_OPEN_THRESHOLD)

\* lines 143-144: the lux of the reading the lookup returned was at most the
\* dark threshold and the new one is at least the open threshold
Transition(prev_lux, lux) ==
    /\ prev_lux # NULL /\ lux # NULL
    /\ PyLessEq(prev_lux, LUMINOSITY_DARK_THRESHOLD)
    /\ PyGreaterEq(lux, LUMINOSITY_OPEN_THRESHOLD)

\* lines 195-199: the candidates of the rules, none when the call raises
RuleCandidates(doc, env) ==
    IF env.rules = "ok" THEN apply_threshold_rules(doc) ELSE <<>>

\* lines 201-207: the candidate of the optional ML hook
MlCandidates(env) == IF env.ml = "anomaly" THEN <<"ml">> ELSE <<>>

\* lines 195-207: the list the loop of line 209 runs over
Candidates(doc, env) == RuleCandidates(doc, env) \o MlCandidates(env)

\* lines 18 and 231-232: every statement after the URL is built sits in one
\* try whose `except Exception` logs and returns
OuterTry == TRUE

OutcomeIgnoresInsertFailure(env, f, has_last, last, doc) ==
    IF env.http # "ok" THEN env.http
    ELSE IF NormalizeRaises(f) THEN "rejected"
    ELSE IF has_last /\ Suppressed(last, doc) THEN "suppressed"
    ELSE "stored"

OutcomeNeverSuppressed(env, f, has_last, last, doc) ==
    IF env.http # "ok" THEN env.http
    ELSE IF NormalizeRaises(f) THEN "rejected"
    ELSE IF env.insert_reading # "ok" THEN "insert_failed"
    ELSE "stored"

OutcomeLookupFatal(env, f, has_last, last, doc) ==
    IF env.http # "ok" THEN env.http
    ELSE IF NormalizeRaises(f) THEN "rejected"
    ELSE IF env.find_last # "ok" THEN "lookup_failed"
    ELSE IF has_last /\ Suppressed(last, doc) THEN "suppressed"
    ELSE IF env.insert_reading # "ok" THEN "insert_failed"
    ELSE "stored"

\* which return or write ends the reading part of the cycle (lines 18-130)
Outcome(env, f, has_last, last, doc) ==
    IF env.http # "ok" THEN env.http
    ELSE IF NormalizeRaises(f) THEN "rejected"
    ELSE IF has_last /\ Suppressed(last, doc) THEN "suppressed"
    ELSE IF env.insert_reading # "ok" THEN "insert_failed"
    ELSE "stored"

InsertReadingOverLast(rs, doc) ==
    IF rs = <<>> THEN <<doc>> ELSE [rs EXCEPT ![Len(rs)] = doc]

\* line 129: readings.insert_one(doc) adds one document
InsertReading(rs, doc) == Append(rs, doc)

\* stands for "no alert document" in a cycle that has none at hand
NoAlert ==
    [ silo_id |-> "s1", level |-> "none", rule |-> "none", timestamp |-> 0,
      acknowledged |-> FALSE, ack_by |-> NOBODY, ack_at |-> NULL ]

\* the alert store as the candidates after a failed insert find it:
\* "recovers" is an outage that ends with the loop's first failed insert
AfterFailedInsert(env) ==
    IF env.insert_alert = "recovers" THEN [env EXCEPT !.insert_alert = "ok"] ELSE env

\* the two ingestion loops of the process: thingspeak_job of the scheduler
\* and the thingspeak_poller task; each awaits one cycle at a time
Pollers == {"scheduler", "poller"}

\* ---- the cycle as a coroutine: its local variables, the awaited call it
\* ---- is suspended at (pc) and the document built for that call (arg)

\* lines 18-126: the cycle from its call to the decision of the dedup gate on
\* the reading its lookup returned; it then waits at readings.insert_one, or
\* has returned
Called(p, silo_id, f, env, li) ==
    LET doc == Normalize(f, silo_id)
        has_last == env.find_last = "ok" /\ li # 0
        last == IF has_last THEN readings[li] ELSE doc
        outcome == Outcome(env, f, has_last, last, doc)
    IN  [ poller |-> p,
          seen |-> [ op |-> "fetch_and_store", poller |-> p, silo_id |-> silo_id,
                     outcome |-> outcome,
                     raised |-> ~OuterTry /\ outcome \in {"raise", "insert_failed"},
                     lookup |-> IF env.http # "ok" \/ NormalizeRaises(f) THEN "not_reached"
                                ELSE IF env.find_last # "ok" THEN "failed"
                                ELSE IF li = 0 THEN "empty" ELSE "found",
                     last |-> IF has_last THEN li ELSE 0,
                     doc |-> doc,
                     readings_before |-> Len(readings),
                     events_before |-> Len(silo_events),
                     alerts_before |-> Len(alerts),
                     subs_before |-> push_subscriptions,
                     env |-> env ],
          pc |-> IF outcome \in {"stored", "insert_failed"} THEN "reading" ELSE "done",
          env |-> env,
          prev_lux |-> IF has_last THEN last.lux ELSE NULL,
          arg |-> NoAlert,
          todo |-> <<>>,
          d |-> Entered(0, silo_id, env, {}, <<>>),
          queue |-> <<>>,
          log |-> <<>> ]

\* the coroutine has returned
Done(c) == [c EXCEPT !.pc = "done", !.arg = NoAlert, !.todo = <<>>, !.queue = <<>>]

\* lines 209-219: the loop takes its next candidate and builds its document,
\* utcnow() included, before it awaits the insert; with none left the cycle
\* has ended
NextCandidate(c) ==
    IF c.todo = <<>> THEN Done(c)
    ELSE [c EXCEPT !.pc = "alert", !.arg = NewAlert(c.seen.silo_id, Head(c.todo)),
                   !.todo = Tail(c.todo), !.queue = <<>>]

\* lines 182-197: the post-processing try; the import of the rules module
\* may fail, otherwise apply_threshold_rules is awaited
ToRules(c) ==
    IF c.env.rules = "import_error" THEN Done(c)
    ELSE [c EXCEPT !.pc = "rules", !.arg = NoAlert]

\* lines 166-176: the fire flag builds the critical alert and awaits its insert
ToFire(c) ==
    IF c.seen.doc.luminosity_alert = 1
    THEN [c EXCEPT !.pc = "fire", !.arg = NewAlert(c.seen.silo_id, "fire_flag")]
    ELSE ToRules(c)

\* lines 133-153: after the insert of the reading, the luminosity step
AfterReading(c) ==
    IF Transition(c.prev_lux, c.seen.doc.lux)
    THEN [c EXCEPT !.pc = "event"]
    ELSE ToFire(c)

\* lines 146-152: the silo_opened event
Event(c) ==
    [ silo_id |-> c.seen.silo_id, event_type |-> "silo_opened",
      prev_lux |-> c.prev_lux, lux |-> c.seen.doc.lux ]

\* the loop as it would run with the try around the `for`: the first dispatch
\* that raises ends it
FinishedEndsLoop(c, d, subs) ==
    IF d.raised
    THEN Done([c EXCEPT !.d = Returned(d, subs, active_connections),
                        !.log = Append(@, Returned(d, subs, active_connections))])
    ELSE NextCandidate([c EXCEPT !.d = Returned(d, subs, active_connections),
                                 !.log = Append(@, Returned(d, subs, active_connections))])

\* line 221: notify_alert has returned, or raised into the except of line
\* 222; the dispatch is logged and the loop goes on
Finished(c, d, subs) ==
    NextCandidate([c EXCEPT !.d = Returned(d, subs, active_connections),
                            !.log = Append(@, Returned(d, subs, active_connections))])

InsertRaisedDispatches(c) ==
    [c EXCEPT !.pc = "silo_find",
              !.d = Entered(Len(alerts) + 1, c.seen.silo_id, c.env,
                          push_subscriptions, active_connections)]

\* lines 220-223: a raise of alerts.insert_one jumps to the except of the
\* candidate, notify_alert is not called for it
InsertRaised(c) == NextCandidate([c EXCEPT !.env = AfterFailedInsert(c.env)])

\* the orders in which a cursor without a sort may return a set of documents
Orders(S) ==
    {q \in [1..Cardinality(S) -> S] : \A i, j \in DOMAIN q : i # j => q[i] # q[j]}

\* does the silo document name the destination (lines 132, 137, 145)
Destination(silo, field) == silo.exists /\ silo.responsible[field]

\* lines 154-161: the loop takes the next subscription of the cursor and
\* awaits its push; after the last one line 170 raises inside its try and
\* notify_alert returns
ToPush(c, subs) ==
    IF c.queue = <<>> THEN Finished(c, c.d, subs) ELSE [c EXCEPT !.pc = "push"]

\* lines 153-154: the first document of the cursor is awaited
ToSubs(c) == [c EXCEPT !.pc = "subs_find"]

\* lines 144-148: send_sms_twilio awaits its post when the silo names a phone
\* and the Twilio settings are there (lines 56-58)
ToSms(c) ==
    LET status == ChannelStatus(TRUE, Destination(c.d.silo, "phone"), creds.twilio, "awaited")
    IN  IF status = "awaited" THEN [c EXCEPT !.pc = "sms"]
        ELSE ToSubs([c EXCEPT !.d.sms = status])

\* lines 136-140: send_email awaits the executor when the silo names an
\* address and the SMTP settings are there (lines 47-49)
ToEmail(c) ==
    LET status == ChannelStatus(TRUE, Destination(c.d.silo, "email"), creds.smtp, "awaited")
    IN  IF status = "awaited" THEN [c EXCEPT !.pc = "email"]
        ELSE ToSms([c EXCEPT !.d.email = status])

\* lines 128-134: send_telegram awaits its post when the silo names a chat
\* and the bot token is there (lines 22-24)
ToTelegram(c) ==
    LET status == ChannelStatus(TRUE, Destination(c.d.silo, "telegram_chat_id"),
                                creds.telegram, "awaited")
    IN  IF status = "awaited" THEN [c EXCEPT !.pc = "telegram"]
        ELSE ToEmail([c EXCEPT !.d.telegram = status])

\* an exception leaves notify_alert (no handler at lines 127, 134, 153-154)
Raised(c) == Finished(c, [c.d EXCEPT !.raised = TRUE], push_subscriptions)

\* one awaited call of the coroutine returns or raises and the code runs on
\* to its next await: the coroutine and the stores after it (q is the order
\* in which the cursor of a pending subscription lookup returns them)
Resumed(c, q) ==
    LET same == [ readings |-> readings, silo_events |-> silo_events,
                  alerts |-> alerts, subs |-> push_subscriptions ]
    IN  CASE c.pc = "reading" ->
               \* line 129
               IF c.seen.outcome = "insert_failed"
               THEN [co |-> Done(c)] @@ same
               ELSE [co |-> AfterReading(c),
                     readings |-> InsertReading(readings, c.seen.doc)] @@ same
          [] c.pc = "event" ->
               \* line 153, then lines 155-163
               IF c.env.insert_event = "ok"
               THEN [co |-> [c EXCEPT !.pc = "warning",
                                      !.arg = NewAlert(c.seen.silo_id, "silo_opened")],
                     silo_events |-> Append(silo_events, Event(c))] @@ same
               ELSE [co |-> ToRules(c)] @@ same
          [] c.pc = "warning" ->
               \* line 164
               IF c.env.insert_alert = "ok"
               THEN [co |-> ToFire(c), alerts |-> Append(alerts, c.arg)] @@ same
               ELSE [co |-> ToRules(c)] @@ same
          [] c.pc = "fire" ->
               \* line 176
               IF c.env.insert_alert = "ok"
               THEN [co |-> ToRules(c), alerts |-> Append(alerts, c.arg)] @@ same
               ELSE [co |-> ToRules(c)] @@ same
          [] c.pc = "rules" ->
               \* lines 197-203: the rules read the silo's limits as stored now;
               \* detect_anomaly is awaited when the ML module is installed
               [co |-> IF c.env.ml = "absent"
                       THEN NextCandidate([c EXCEPT !.todo = RuleCandidates(c.seen.doc, c.env)])
                       ELSE [c EXCEPT !.pc = "ml",
                                      !.todo = RuleCandidates(c.seen.doc, c.env)]] @@ same
          [] c.pc = "ml" ->
               \* lines 203-207
               [co |-> NextCandidate([c EXCEPT !.todo = @ \o MlCandidates(c.env)])] @@ same
          [] c.pc = "alert" ->
               \* lines 220-221: the insert, then notify_alert up to its lookup
               IF c.env.insert_alert = "ok"
               THEN [co |-> [c EXCEPT !.pc = "silo_find", !.arg = NoAlert,
                                      !.d = Entered(Len(alerts) + 1, c.seen.silo_id, c.env,
                          push_subscriptions, active_connections)],
                     alerts |-> Append(alerts, c.arg)] @@ same
               ELSE [co |-> InsertRaised(c)] @@ same
          [] c.pc = "silo_find" ->
               \* notification.py line 127
               [co |-> IF c.env.silo_find # "ok"
                       THEN Raised([c EXCEPT !.d.silo_lookup = c.env.silo_find])
                       ELSE ToTelegram([c EXCEPT !.d.silo = silos[c.d.silo_id],
                                                 !.d.silo_lookup = "ok"])] @@ same
          [] c.pc = "telegram" ->
               \* notification.py line 27
               [co |-> IF TelegramAborts(c.env.telegram)
                       THEN Raised([c EXCEPT !.d.telegram = c.env.telegram])
                       ELSE ToEmail([c EXCEPT !.d.telegram = c.env.telegram])] @@ same
          [] c.pc = "email" ->
               \* notification.py line 51
               [co |-> IF EmailAborts(c.env.email)
                       THEN Raised([c EXCEPT !.d.email = c.env.email])
                       ELSE ToSms([c EXCEPT !.d.email = c.env.email])] @@ same
          [] c.pc = "sms" ->
               \* notification.py line 63
               [co |-> IF SmsAborts(c.env.sms)
                       THEN Raised([c EXCEPT !.d.sms = c.env.sms])
                       ELSE ToSubs([c EXCEPT !.d.sms = c.env.sms])] @@ same
          [] c.pc = "subs_find" ->
               \* notification.py lines 153-154
               [co |-> IF c.env.subs_find # "ok"
                       THEN Raised([c EXCEPT !.d.subs_seen = push_subscriptions,
                                             !.d.subs_lookup = c.env.subs_find])
                       ELSE ToPush([c EXCEPT !.d.subs_seen = push_subscriptions,
                                             !.d.subs_lookup = "ok", !.queue = q],
                                   push_subscriptions)] @@ same
          [] c.pc = "push" ->
               \* notification.py lines 161-163
               LET s == Head(c.queue)
                   status == ChannelStatus(TRUE, TRUE, creds.vapid, c.env.push[s.endpoint])
                   d == [c.d EXCEPT !.push = [x \in DOMAIN c.d.push \cup {s} |->
                                                 IF x = s THEN status ELSE c.d.push[x]]]
               IN  [co |-> IF PushFailed(status)
                           THEN [c EXCEPT !.pc = "delete", !.d = d]
                           ELSE ToPush([c EXCEPT !.d = d, !.queue = Tail(c.queue)],
                                       push_subscriptions)] @@ same
          [] c.pc = "delete" ->
               \* notification.py lines 164-167
               LET gone == DeletedSubs({Head(c.queue)}, c.env)
               IN  [co |-> ToPush([c EXCEPT !.d.deleted = @ \cup gone,
                                            !.queue = Tail(c.queue)],
                                  push_subscriptions \ gone),
                    subs |-> push_subscriptions \ gone] @@ same

\* lines 14-126: the call of the handler by one of the ingestion loops
fetch_lookup(p, silo_id, f, env, li) ==
    /\ nCycles < MaxCycles
    /\ \A c \in inflight : c.poller # p
    /\ nCycles' = nCycles + 1
    /\ \E c \in {Called(p, silo_id, f, env, li)} :
          IF c.pc = "done"
          THEN /\ inflight' = inflight
               /\ cycle' = c.seen
          ELSE /\ inflight' = inflight \cup {c}
               /\ cycle' = [ op |-> "fetch_lookup", poller |-> p, silo_id |-> silo_id ]
    /\ dispatches' = <<>>
    /\ UNCHANGED <<job, readings, silo_events, alerts, push_subscriptions, active_connections,
                   silos, creds, now, mgr, nAcks, nRegistryOps, nSiloOps, acking>>

\* lines 129-223: the awaited call a cycle is suspended at returns and the
\* cycle runs to its next await; after the last one the cycle has ended
fetch_step(c) ==
    /\ c \in inflight
    /\ \E q \in (IF c.pc = "subs_find" /\ c.env.subs_find = "ok"
                 THEN Orders(Scope(push_subscriptions, c.d.silo_id)) ELSE {<<>>}) :
       \E r \in {Resumed(c, q)} :
          /\ readings' = r.readings
          /\ silo_events' = r.silo_events
          /\ alerts' = r.alerts
          /\ push_subscriptions' = r.subs
          /\ IF r.co.pc = "done"
             THEN /\ inflight' = inflight \ {c}
                  /\ cycle' = r.co.seen
                  /\ dispatches' = r.co.log
             ELSE /\ inflight' = (inflight \ {c}) \cup {r.co}
                  /\ cycle' = [ op |-> "fetch_step", poller |-> c.poller,
                                silo_id |-> c.seen.silo_id, step |-> c.pc ]
                  /\ dispatches' = <<>>
    /\ UNCHANGED <<job, active_connections, silos, creds, now, mgr,
                   nCycles, nAcks, nRegistryOps, nSiloOps, acking>>

\* the scheduler's call of the handler (scheduler.py line 45)
fetch_and_store(silo_id, f, env, li) == fetch_lookup("scheduler", silo_id, f, env, li)

\* ------------------------------------------------------ tasks/scheduler.py
\* config.THINGSPEAK_CHANNELS, in the order of its items()
JobSilos == <<"s1", "s2">>

\* what a run meets for each configured silo: whether THINGSPEAK_API_KEYS has
\* its key and whether db.silos.find_one answers
JobPlans == [SiloIds -> [key : {"ok", "missing"}, silo_find : {"ok", "raise"}]]

\* line 31: the scheduler fires the job
job_start(plan) ==
    /\ nCycles < MaxCycles
    /\ job.state # "running"
    /\ \A c \in inflight : c.poller # "scheduler"
    /\ nCycles' = nCycles + 1
    /\ job' = [ state |-> "running", pc |-> 1, plan |-> plan, attempted |-> {} ]
    /\ cycle' = [ op |-> "job_start" ]
    /\ dispatches' = <<>>
    /\ UNCHANGED <<readings, silo_events, alerts, push_subscriptions, active_connections,
                   silos, creds, now, mgr, inflight, nAcks, nRegistryOps, nSiloOps, acking>>

AfterItem(j) ==
    [j EXCEPT !.pc = @ + 1,
              !.state = IF j.pc = Len(JobSilos) THEN "finished" ELSE "running"]

\* lines 34-53: one iteration of the loop, up to the dedup decision of the
\* cycle it awaits (the cycle's writes follow as fetch_step, and the next
\* iteration starts when the cycle has ended); the try is around the whole
\* loop, so an exception of the iteration ends the run
job_step(f, env, li) ==
    /\ job.state = "running"
    /\ \A c \in inflight : c.poller # "scheduler"
    /\ LET k == JobSilos[job.pc]
       IN  IF job.plan[k].key = "missing"
           THEN /\ job' = AfterItem(job)
                /\ cycle' = [ op |-> "job_step", silo_id |-> k, item |-> "no_key" ]
                /\ inflight' = inflight
           ELSE IF job.plan[k].silo_find = "raise"
           THEN /\ job' = [job EXCEPT !.state = "finished"]
                /\ cycle' = [ op |-> "job_step", silo_id |-> k, item |-> "raised" ]
                /\ inflight' = inflight
           ELSE \E c \in {Called("scheduler", k, f, env, li)} :
                  /\ job' = [AfterItem(job) EXCEPT !.attempted = @ \cup {k}]
                  /\ inflight' = IF c.pc = "done" THEN inflight ELSE inflight \cup {c}
                  /\ cycle' = [ op |-> "job_step", silo_id |-> k, item |-> c.seen.outcome ]
    /\ dispatches' = <<>>
    /\ UNCHANGED <<readings, silo_events, alerts, push_subscriptions, active_connections,
                   silos, creds, now, mgr, nCycles, nAcks, nRegistryOps, nSiloOps, acking>>

\* -------------------------------------------------------- routes/silos.py
\* the settings of a silo document: absent (null), {} or a SiloSettings dict
NoSettings ==
    [ kind |-> "null", temp_threshold |-> NULL, co2_threshold |-> NULL,
      mq2_threshold |-> NULL, alert_interval_min |-> NULL ]

EmptySettings == [NoSettings EXCEPT !.kind = "empty"]

\* SiloSettings(temp_threshold=t).dict(): alert_interval_min defaults to 5
SettingsDict(t) ==
    [NoSettings EXCEPT !.kind = "set", !.temp_threshold = t, !.alert_interval_min = 5]

\* lines 51-59 and 81-91: a new document has its settings, no responsible
\* party and no limits
NewSilo(settings, channel) ==
    [ exists |-> TRUE,
      responsible |-> [telegram_chat_id |-> FALSE, email |-> FALSE, phone |-> FALSE],
      thresholds |-> [max_temp |-> NULL, max_humidity |-> NULL, max_gas |-> NULL],
      settings |-> settings,
      thingspeak_channel_id |-> channel ]

\* the ids db.silos has no document for
FreeIds == {k \in NewIds : ~silos[k].exists}

SiloRouteUnchanged ==
    UNCHANGED <<readings, silo_events, alerts, push_subscriptions, active_connections,
                creds, now, mgr, inflight, job, nCycles, nAcks, nRegistryOps, acking>>

\* lines 40-63: an admin inserts a new silo document
create_silo(role, settings) ==
    /\ nSiloOps < MaxSiloOps
    /\ role = "admin" => FreeIds # {}
    /\ nSiloOps' = nSiloOps + 1
    /\ IF role # "admin"
       THEN /\ silos' = silos
            /\ cycle' = [ op |-> "create_silo", status |-> 403, silo_id |-> "none" ]
       ELSE \E k \in FreeIds :
            /\ silos' = [silos EXCEPT ![k] = NewSilo(settings, NULL)]
            /\ cycle' = [ op |-> "create_silo", status |-> 200, silo_id |-> k ]
    /\ dispatches' = <<>>
    /\ SiloRouteUnchanged

\* lines 66-95: update_one by thingspeak_channel_id with upsert; the $set
\* carries a new _id, which the store refuses for a document that exists
import_thingspeak(role, channel, http) ==
    /\ nSiloOps < MaxSiloOps
    /\ LET matched == {k \in DOMAIN silos :
                          silos[k].exists /\ silos[k].thingspeak_channel_id = channel}
           status == IF role # "admin" THEN 403
                     ELSE IF http # "ok" THEN 404
                     ELSE IF matched # {} THEN 500 ELSE 200
       IN  /\ status = 200 => FreeIds # {}
           /\ IF status = 200
              THEN \E k \in FreeIds :
                   /\ silos' = [silos EXCEPT ![k] = NewSilo(EmptySettings, channel)]
                   /\ cycle' = [ op |-> "import_thingspeak", status |-> 200, silo_id |-> k ]
              ELSE /\ silos' = silos
                   /\ cycle' = [ op |-> "import_thingspeak", status |-> status,
                                 silo_id |-> "none" ]
    /\ nSiloOps' = nSiloOps + 1
    /\ dispatches' = <<>>
    /\ SiloRouteUnchanged

\* lines 97-110: an admin or operator sets the settings of one silo;
\* modified_count is 0 for a missing silo and for settings equal to the
\* stored ones
update_settings(role, silo_id, settings) ==
    /\ nSiloOps < MaxSiloOps
    /\ nSiloOps' = nSiloOps + 1
    /\ LET allowed == role \in {"admin", "operator"}
           modified == silos[silo_id].exists /\ silos[silo_id].settings # settings
       IN  /\ silos' = IF allowed /\ modified
                       THEN [silos EXCEPT ![silo_id].settings = settings]
                       ELSE silos
           /\ cycle' = [ op |-> "update_settings", silo_id |-> silo_id,
                         status |-> IF ~allowed THEN 403
                                    ELSE IF modified THEN 200 ELSE 404 ]
    /\ dispatches' = <<>>
    /\ SiloRouteUnchanged

\* ------------------------------------------------------- routes/alerts.py
AckUpdateToggle(a, user, at) ==
    [a EXCEPT !.acknowledged = ~a.acknowledged, !.ack_by = user, !.ack_at = at]

\* line 25: update_one({"_id": alert_id}, {"$set": {...}}), unconditional
AckUpdate(a, user, at) ==
    [a EXCEPT !.acknowledged = TRUE, !.ack_by = user, !.ack_at = at]

\* line 25: the handler builds the update, utcnow() included, and waits at
\* update_one; alert_id is the _id of a stored alert (its position) or 0,
\* an id no alert has
ack_alert(alert_id, user) ==
    /\ nAcks < MaxAcks
    /\ alert_id \in DOMAIN alerts \cup {0}
    /\ nAcks' = nAcks + 1
    /\ acking' = acking \cup {[alert |-> alert_id, user |-> user, ack_at |-> now, call |-> nAcks]}
    /\ now' = now + 1
    /\ cycle' = [ op |-> "ack_call", alert |-> alert_id, user |-> user ]
    /\ dispatches' = <<>>
    /\ UNCHANGED <<job, readings, silo_events, alerts, push_subscriptions, active_connections,
                   silos, creds, mgr, inflight, nCycles, nRegistryOps, nSiloOps>>

\* line 25: update_one returns; the document with that _id, if any, has the
\* three fields set
ack_update(a) ==
    /\ a \in acking
    /\ acking' = acking \ {a}
    /\ alerts' = [i \in DOMAIN alerts |-> IF i = a.alert THEN AckUpdate(alerts[i], a.user, a.ack_at)
                                          ELSE alerts[i]]
    /\ cycle' = [ op |-> "ack_alert", alert |-> a.alert, user |-> a.user,
                  matched |-> a.alert \in DOMAIN alerts,
                  before |-> IF a.alert \in DOMAIN alerts THEN alerts[a.alert]
                             ELSE NewAlert("s1", "none") ]
    /\ dispatches' = <<>>
    /\ UNCHANGED <<job, readings, silo_events, push_subscriptions, active_connections,
                   silos, creds, now, mgr, inflight, nCycles, nAcks, nRegistryOps, nSiloOps>>

\* --------------------------------------------------------- services/ws.py
RemoveNothing(list, w) == list

\* lines 16-17: list.remove under `if websocket in self.active_connections`
Remove(list, w) ==
    IF \E i \in 1..Len(list) : list[i] = w
    THEN LET k == CHOOSE i \in 1..Len(list) :
                      list[i] = w /\ \A j \in 1..(i - 1) : list[j] # w
         IN  [i \in 1..(Len(list) - 1) |-> IF i < k THEN list[i] ELSE list[i + 1]]
    ELSE list

\* nobody holds self._lock and nobody waits for it
LockIdle == mgr.lock = "free" /\ mgr.waiters = <<>>

\* lines 10-12: with the lock free the append runs without suspending; the
\* endpoint connects a websocket once, when it is accepted (alerts.py lines
\* 35-36), so a listed websocket is never appended again
connect(w) ==
    /\ nRegistryOps < MaxRegistryOps
    /\ LockIdle
    /\ \A i \in 1..Len(active_connections) : active_connections[i] # w
    /\ nRegistryOps' = nRegistryOps + 1
    /\ active_connections' = Append(active_connections, w)
    /\ cycle' = [ op |-> "connect", listener |-> w ]
    /\ dispatches' = <<>>
    /\ UNCHANGED <<job, readings, silo_events, alerts, push_subscriptions, silos, creds,
                   now, mgr, inflight, nCycles, nAcks, nSiloOps, acking>>

disconnect(w) ==
    /\ nRegistryOps < MaxRegistryOps
    /\ LockIdle
    /\ nRegistryOps' = nRegistryOps + 1
    /\ active_connections' = Remove(active_connections, w)
    /\ cycle' = [ op |-> "disconnect", listener |-> w,
                  present |-> w \in {active_connections[i] : i \in DOMAIN active_connections} ]
    /\ dispatches' = <<>>
    /\ UNCHANGED <<job, readings, silo_events, alerts, push_subscriptions, silos, creds,
                   now, mgr, inflight, nCycles, nAcks, nSiloOps, acking>>

\* ---- the same registry, one await at a time
RegistryCalls == [kind : {"connect", "disconnect"}, listener : Listeners]

BroadcastCall == [kind |-> "broadcast", listener |-> "all"]

ApplyCall(list, c) ==
    IF c.kind = "connect" THEN Append(list, c.listener)
    ELSE IF c.kind = "disconnect" THEN Remove(list, c.listener)
    ELSE list

\* lines 24-28: with the lock in hand broadcast copies the list and awaits
\* the first send; with no listener it releases at once
BroadcastStarted(m, list, waited) ==
    IF list = <<>> THEN m
    ELSE [m EXCEPT !.lock = "broadcast", !.pc = "sending", !.snapshot = list,
                   !.idx = 1, !.to_remove = {}, !.waited = waited]

\* lines 11, 15: `async with self._lock` while the lock is taken, or others
\* wait for it, parks the caller behind them
lock_wait(c) ==
    /\ nRegistryOps < MaxRegistryOps
    /\ ~LockIdle
    /\ c.kind = "connect"
         => /\ \A i \in DOMAIN active_connections : active_connections[i] # c.listener
            /\ \A i \in DOMAIN mgr.waiters : mgr.waiters[i] # c
    /\ nRegistryOps' = nRegistryOps + 1
    /\ mgr' = [mgr EXCEPT !.waiters = Append(@, c)]
    /\ cycle' = [ op |-> "lock_wait", call |-> c ]
    /\ dispatches' = <<>>
    /\ UNCHANGED <<job, readings, silo_events, alerts, push_subscriptions, active_connections,
                   silos, creds, now, inflight, nCycles, nAcks, nSiloOps, acking>>

\* the release of the lock wakes the first waiter: a connect or disconnect
\* runs its append or remove and releases in turn, a broadcast starts sending
lock_resume ==
    /\ mgr.lock = "free" /\ mgr.waiters # <<>>
    /\ active_connections' = ApplyCall(active_connections, Head(mgr.waiters))
    /\ mgr' = IF Head(mgr.waiters).kind = "broadcast"
              THEN BroadcastStarted([mgr EXCEPT !.waiters = Tail(@)], active_connections, TRUE)
              ELSE [mgr EXCEPT !.waiters = Tail(@)]
    /\ cycle' = [ op |-> "lock_resume", call |-> Head(mgr.waiters),
                  present |-> Head(mgr.waiters).listener \in
                                {active_connections[i] : i \in DOMAIN active_connections} ]
    /\ dispatches' = <<>>
    /\ UNCHANGED <<job, readings, silo_events, alerts, push_subscriptions, silos, creds, now,
                   inflight, nCycles, nAcks, nRegistryOps, nSiloOps, acking>>

\* line 24: a call of broadcast takes the free lock and starts, or waits for
\* the lock behind its holder and the earlier waiters
broadcast ==
    /\ nCycles < MaxCycles
    /\ nCycles' = nCycles + 1
    /\ mgr' = IF LockIdle THEN BroadcastStarted(mgr, active_connections, FALSE)
              ELSE [mgr EXCEPT !.waiters = Append(@, BroadcastCall)]
    /\ cycle' = [ op |-> "broadcast", waits |-> ~LockIdle ]
    /\ dispatches' = <<>>
    /\ UNCHANGED <<job, readings, silo_events, alerts, push_subscriptions, active_connections,
                   silos, creds, now, inflight, nAcks, nRegistryOps, nSiloOps, acking>>

DropFailedNone(list, failed) == list

\* lines 31-33: every listener of to_remove still in the list is removed
DropFailed(list, failed) == SelectSeq(list, LAMBDA x : x \notin failed)

\* lines 27-33: the awaited send_text returns or raises; after the last one
\* the failed listeners are removed and the lock is released
broadcast_send(o) ==
    /\ mgr.pc = "sending"
    /\ LET w == mgr.snapshot[mgr.idx]
           rem == IF o = "fail" THEN mgr.to_remove \cup {w} ELSE mgr.to_remove
       IN  IF mgr.idx = Len(mgr.snapshot)
           THEN /\ active_connections' = DropFailed(active_connections, rem)
                /\ mgr' = [mgr EXCEPT !.lock = "free", !.pc = "idle", !.snapshot = <<>>,
                                      !.idx = 0, !.to_remove = {}, !.waited = FALSE]
                /\ cycle' = [ op |-> "broadcast_send", listener |-> w, outcome |-> o,
                              ended |-> TRUE, snapshot |-> mgr.snapshot, failed |-> rem,
                              waited |-> mgr.waited ]
           ELSE /\ active_connections' = active_connections
                /\ mgr' = [mgr EXCEPT !.idx = @ + 1, !.to_remove = rem]
                /\ cycle' = [ op |-> "broadcast_send", listener |-> w, outcome |-> o,
                              ended |-> FALSE, snapshot |-> mgr.snapshot, failed |-> rem,
                              waited |-> mgr.waited ]
    /\ dispatches' = <<>>
    /\ UNCHANGED <<job, readings, silo_events, alerts, push_subscriptions, silos, creds, now,
                   inflight, nCycles, nAcks, nRegistryOps, nSiloOps, acking>>


\* ---------------------------------------------------------------- inputs
BaseFeed ==
    [ field1 |-> 25, field2 |-> 50, field3 |-> 400, field4 |-> 100,
      field5 |-> 0, field6 |-> 5, created_at |-> 0 ]

\* every external call succeeds, the optional ML module is not installed
OkEnv ==
    [ http |-> "ok", find_last |-> "ok", insert_reading |-> "ok",
      insert_event |-> "ok", insert_alert |-> "ok", rules |-> "ok", ml |-> "absent",
      silo_find |-> "ok", telegram |-> "ok", email |-> "ok", sms |-> "ok",
      subs_find |-> "ok", push |-> [e \in Endpoints |-> "ok"], delete |-> "ok",
      ws |-> [w \in Listeners |-> "ok"] ]

\* the database is unreachable: every store call raises
StoreDown ==
    [OkEnv EXCEPT !.find_last = "raise", !.insert_reading = "raise",
                  !.insert_event = "raise", !.insert_alert = "raise",
                  !.silo_find = "raise", !.subs_find = "raise", !.delete = "raise"]

Stamps == {0, 17999, 18000, 18001}

At(f, t) == [f EXCEPT !.created_at = t]

\* records that differ from BaseFeed in one comparison field
FeedShapes ==
    { BaseFeed,
      [BaseFeed EXCEPT !.field1 = 35],
      [BaseFeed EXCEPT !.field1 = NAN],
      [BaseFeed EXCEPT !.field3 = NULL],
      [BaseFeed EXCEPT !.field5 = 1],
      [BaseFeed EXCEPT !.field6 = 150] }

\* records whose fields do not parse
OddFeeds ==
    { [BaseFeed EXCEPT !.field2 = EMPTY],
      [BaseFeed EXCEPT !.field4 = BAD],
      [BaseFeed EXCEPT !.field1 = BAD],
      [BaseFeed EXCEPT !.created_at = BAD] }

\* records around the two luminosity thresholds, and one without lux
LuxFeeds ==
    { [BaseFeed EXCEPT !.field6 = x, !.created_at = 1] : x \in {10, 11, 50, 99, 100, NULL} }

HotFeed == [BaseFeed EXCEPT !.field1 = 35, !.field3 = 900, !.field5 = 1, !.field6 = 150]

StoreEnvs ==
    { [OkEnv EXCEPT !.http = "raise"], [OkEnv EXCEPT !.http = "status"],
      [OkEnv EXCEPT !.http = "no_feeds"],
      [OkEnv EXCEPT !.find_last = "raise"], [OkEnv EXCEPT !.insert_reading = "raise"],
      [OkEnv EXCEPT !.insert_event = "raise"], [OkEnv EXCEPT !.insert_alert = "raise"],
      [OkEnv EXCEPT !.rules = "raise"], [OkEnv EXCEPT !.rules = "import_error"],
      [OkEnv EXCEPT !.ml = "normal"], [OkEnv EXCEPT !.ml = "anomaly"],
      [OkEnv EXCEPT !.ml = "raise"], StoreDown }

IngestInputs ==
    { [silo_id |-> "s1", f |-> At(f, t), env |-> OkEnv] : f \in FeedShapes, t \in Stamps }
    \cup { [silo_id |-> "s1", f |-> f, env |-> OkEnv] : f \in OddFeeds \cup LuxFeeds }
    \cup { [silo_id |-> "s1", f |-> HotFeed, env |-> e] : e \in StoreEnvs }
    \cup { [silo_id |-> "s2", f |-> At(BaseFeed, t), env |-> OkEnv] : t \in {0, 18000} }

DispatchEnvs ==
    { OkEnv,
      [OkEnv EXCEPT !.silo_find = "raise"], [OkEnv EXCEPT !.telegram = "raise"],
      [OkEnv EXCEPT !.email = "raise"], [OkEnv EXCEPT !.sms = "raise"],
      [OkEnv EXCEPT !.sms = "http_error"], [OkEnv EXCEPT !.subs_find = "raise"],
      [OkEnv EXCEPT !.push["e1"] = "gone"], [OkEnv EXCEPT !.push["e1"] = "transient"],
      [OkEnv EXCEPT !.push["e2"] = "gone"],
      [OkEnv EXCEPT !.push["e1"] = "gone", !.delete = "raise"],
      [OkEnv EXCEPT !.ws["w1"] = "fail"],
      [OkEnv EXCEPT !.email = "raise", !.sms = "http_error", !.push["e2"] = "gone"],
      [OkEnv EXCEPT !.insert_alert = "raise"] }

WarmFeed == [BaseFeed EXCEPT !.field1 = 35]

DispatchInputs ==
    { [silo_id |-> "s1", f |-> HotFeed, env |-> e] : e \in DispatchEnvs }
    \cup { [silo_id |-> "s2", f |-> WarmFeed, env |-> e] :
             e \in {OkEnv, [OkEnv EXCEPT !.email = "raise"],
                    [OkEnv EXCEPT !.push["e2"] = "transient"]} }

\* records at and just over each limit of FullSilo, one without the gas
\* estimate and one with a NaN temperature
RuleFeeds ==
    { [BaseFeed EXCEPT !.field1 = t, !.field2 = h, !.field3 = g] :
        t \in {30, 31}, h \in {80, 81}, g \in {800, 801, NULL} }
    \cup { [BaseFeed EXCEPT !.field1 = NAN, !.field3 = 801] }

OverFeed == [BaseFeed EXCEPT !.field1 = 31, !.field2 = 81, !.field3 = 801]

RuleInputs ==
    { [silo_id |-> s, f |-> f, env |-> OkEnv] : s \in SiloIds, f \in RuleFeeds }
    \cup { [silo_id |-> "s1", f |-> OverFeed, env |-> e] :
             e \in { [OkEnv EXCEPT !.rules = "raise"], [OkEnv EXCEPT !.rules = "import_error"],
                     [OkEnv EXCEPT !.insert_alert = "raise"], [OkEnv EXCEPT !.ml = "anomaly"] } }

\* an equal record past the interval, one inside it, and a changed one
RaceInputs ==
    { [silo_id |-> "s1", f |-> At(BaseFeed, t), env |-> OkEnv] : t \in {17999, 18001} }
    \cup { [silo_id |-> "s1", f |-> At(WarmFeed, 18001), env |-> e] :
             e \in {OkEnv, [OkEnv EXCEPT !.insert_reading = "raise"]} }
    \cup { [silo_id |-> "s2", f |-> At(BaseFeed, 18001), env |-> OkEnv] }

\* what ThingSpeak returns during a run of the job
JobInputs ==
    { [f |-> f, env |-> OkEnv] : f \in {BaseFeed, HotFeed} }
    \cup { [f |-> BaseFeed, env |-> e] :
             e \in { [OkEnv EXCEPT !.http = "raise"], [OkEnv EXCEPT !.insert_reading = "raise"] } }

\* every field of the record in turn as null, as text that is no number, as
\* "nan" and as the empty string
ParseFeeds ==
    { BaseFeed }
    \cup { [BaseFeed EXCEPT ![k] = x] :
             k \in {"field1", "field2", "field3", "field4", "field5", "field6", "created_at"},
             x \in {NULL, BAD, NAN, EMPTY} }

\* a record over two limits with an opening transition and the fire flag, and
\* one over two limits only, under failures of the transition write, of the
\* alert store and of the dispatch
IsolateEnvs ==
    { OkEnv,
      [OkEnv EXCEPT !.silo_find = "raise"], [OkEnv EXCEPT !.telegram = "raise"],
      [OkEnv EXCEPT !.insert_event = "raise"],
      [OkEnv EXCEPT !.insert_event = "raise", !.telegram = "raise"],
      [OkEnv EXCEPT !.insert_alert = "raise"],
      [OkEnv EXCEPT !.insert_alert = "recovers"],
      [OkEnv EXCEPT !.rules = "raise"] }

IsolateInputs ==
    { [silo_id |-> "s1", f |-> At(f, t), env |-> e] :
        f \in {HotFeed, [BaseFeed EXCEPT !.field1 = 35, !.field3 = 900]},
        t \in {1, 18001}, e \in IsolateEnvs }

\* records equal to the stored reading and records that differ from it, at
\* its instant, inside the interval and at its end, for both silos
SeqInputs ==
    { [silo_id |-> k, f |-> At(f, t), env |-> OkEnv] :
        k \in {"s1", "s2"}, f \in {BaseFeed, WarmFeed},
        t \in {0, 17999, 18000} }

\* one alert per cycle, for either silo; an endpoint reported gone, failing
\* for a while, or gone with the store refusing the delete
CleanupInputs ==
    { [silo_id |-> k, f |-> WarmFeed, env |-> e] :
        k \in {"s1", "s2"},
        e \in { OkEnv, [OkEnv EXCEPT !.push["e2"] = "gone"],
                [OkEnv EXCEPT !.push["e1"] = "transient"],
                [OkEnv EXCEPT !.push["e2"] = "gone", !.delete = "raise"] } }

\* a record of silo s1 that raises three alerts and one of silo s2 that raises
\* one; a repeated record is suppressed
AckInputs ==
    { [silo_id |-> "s1", f |-> HotFeed, env |-> OkEnv],
      [silo_id |-> "s2", f |-> WarmFeed, env |-> OkEnv] }

\* ---------------------------------------------------------- configuration
FullSilo ==
    [ exists |-> TRUE,
      responsible |-> [telegram_chat_id |-> TRUE, email |-> TRUE, phone |-> TRUE],
      thresholds |-> [max_temp |-> 30, max_humidity |-> 80, max_gas |-> 800],
      settings |-> NoSettings,
      thingspeak_channel_id |-> NULL ]

EmailOnlySilo ==
    [ exists |-> TRUE,
      responsible |-> [telegram_chat_id |-> FALSE, email |-> TRUE, phone |-> FALSE],
      thresholds |-> [max_temp |-> 30, max_humidity |-> NULL, max_gas |-> NULL],
      settings |-> NoSettings,
      thingspeak_channel_id |-> NULL ]

MissingSilo ==
    [ exists |-> FALSE,
      responsible |-> [telegram_chat_id |-> FALSE, email |-> FALSE, phone |-> FALSE],
      thresholds |-> [max_temp |-> 30, max_humidity |-> NULL, max_gas |-> NULL],
      settings |-> NoSettings,
      thingspeak_channel_id |-> NULL ]

AllCreds == [telegram |-> TRUE, smtp |-> TRUE, twilio |-> TRUE, vapid |-> TRUE]
NoCreds == [telegram |-> FALSE, smtp |-> FALSE, twilio |-> FALSE, vapid |-> FALSE]

\* everything but the reading store, as startup leaves it
InitRest ==
    /\ silo_events = <<>>
    /\ alerts = <<>>
    /\ now = 0
    /\ cycle = [op |-> "init"]
    /\ dispatches = <<>>
    /\ mgr = [ lock |-> "free", waiters |-> <<>>, pc |-> "idle",
               snapshot |-> <<>>, idx |-> 0, to_remove |-> {}, waited |-> FALSE ]
    /\ inflight = {}
    /\ acking = {}
    /\ job = [ state |-> "idle", pc |-> 0, plan |-> <<>>, attempted |-> {} ]
    /\ nCycles = 0 /\ nAcks = 0 /\ nRegistryOps = 0 /\ nSiloOps = 0

InitOthers == active_connections = <<>> /\ InitRest

InitStores ==
    /\ readings = <<>>
    /\ InitOthers

Subscriptions ==
    { [endpoint |-> "e1", silo_id |-> "s1"], [endpoint |-> "e2", silo_id |-> GLOBAL] }

SiloDocs(x) ==
    [s \in SiloIds \cup NewIds |->
        IF s = "s1" THEN FullSilo ELSE IF s \in NewIds THEN MissingSilo ELSE x]

CredChoices ==
    { AllCreds, NoCreds,
      [AllCreds EXCEPT !.telegram = FALSE], [AllCreds EXCEPT !.smtp = FALSE],
      [AllCreds EXCEPT !.twilio = FALSE], [AllCreds EXCEPT !.vapid = FALSE] }

\* the state after startup, under each configuration of the deployment
Init ==
    /\ InitStores
    /\ push_subscriptions = Subscriptions
    /\ silos \in {SiloDocs(EmailOnlySilo), SiloDocs(MissingSilo)}
    /\ creds \in CredChoices

\* a configured deployment after one accepted reading of silo s1
InitOneReading ==
    /\ readings = << Normalize(BaseFeed, "s1") >>
    /\ InitOthers
    /\ push_subscriptions = Subscriptions
    /\ silos = SiloDocs(EmailOnlySilo)
    /\ creds = AllCreds

\* the state after startup of a fully configured deployment
InitConfigured ==
    /\ InitStores
    /\ push_subscriptions = Subscriptions
    /\ silos = SiloDocs(EmailOnlySilo)
    /\ creds = AllCreds

\* a deployment without channel credentials and without push subscriptions:
\* notify_alert awaits the silo lookup and the subscription query only
InitBare ==
    /\ InitStores
    /\ push_subscriptions = {}
    /\ silos = SiloDocs(EmailOnlySilo)
    /\ creds = NoCreds

\* a configured deployment with no, one or two listeners connected
InitLock ==
    /\ readings = <<>>
    /\ InitRest
    /\ active_connections \in {<<>>, <<"w1">>, <<"w1", "w2">>}
    /\ push_subscriptions = Subscriptions
    /\ silos = SiloDocs(EmailOnlySilo)
    /\ creds = AllCreds

Ingest == \E i \in IngestInputs : \E li \in LastCandidates(i.silo_id) :
              fetch_and_store(i.silo_id, i.f, i.env, li)

Poll == \E i \in DispatchInputs : \E li \in LastCandidates(i.silo_id) :
            fetch_and_store(i.silo_id, i.f, i.env, li)

\* an awaited call of a cycle in progress returns
Step == \E c \in inflight : fetch_step(c)

\* an _id is a uuid4 drawn when the alert is built (thing_speak.py lines 156,
\* 168, 212), so a caller names a stored alert or an id no alert has now or
\* later, written 0: either user acknowledges the first stored alert; u1
\* acknowledges the newest stored alert and the id no alert has
Ack == \/ \E u \in Users : 1 \in DOMAIN alerts /\ ack_alert(1, u)
       \/ \E a \in {0, Len(alerts)} \ {1} : ack_alert(a, "u1")

\* u1 acknowledges the first or the newest stored alert
AckStored == \E a \in {1, Len(alerts)} \cap DOMAIN alerts : ack_alert(a, "u1")

\* update_one of an acknowledgment in progress returns
AckReturn == \E a \in acking : ack_update(a)

Connect == \E w \in Listeners : connect(w)

Disconnect == \E w \in Listeners : disconnect(w)

CreateSilo == \E r \in Roles, t \in {EmptySettings, SettingsDict(10)} : create_silo(r, t)

ImportThingspeak ==
    \E r \in Roles, ch \in {1}, h \in {"ok", "status"} : import_thingspeak(r, ch, h)

UpdateSettings ==
    \E r \in Roles, k \in SiloIds \cup NewIds, t \in {SettingsDict(10)} :
        update_settings(r, k, t)

AckPoll == \E i \in AckInputs : \E li \in LastCandidates(i.silo_id) :
               fetch_and_store(i.silo_id, i.f, i.env, li)

Rules == \E i \in RuleInputs : \E li \in LastCandidates(i.silo_id) :
             fetch_and_store(i.silo_id, i.f, i.env, li)

LockWait == \E c \in RegistryCalls : lock_wait(c)

BroadcastSend == \E o \in {"ok", "fail"} : broadcast_send(o)

\* a record that raises the fire flag and breaches two limits, the calls
\* answering, one push endpoint gone, or the alert store down
SystemInputs ==
    { [silo_id |-> "s1", f |-> HotFeed, env |-> e] :
        e \in {OkEnv, [OkEnv EXCEPT !.push["e1"] = "gone"],
               [OkEnv EXCEPT !.insert_alert = "raise"]} }

Call == \E i \in SystemInputs : \E li \in LastCandidates(i.silo_id) :
            fetch_and_store(i.silo_id, i.f, i.env, li)

\* a call of one of the routes, within the number of route calls of a
\* behaviour
Route ==
    /\ RouteBudget
    /\ \/ Connect \/ Disconnect
       \/ AckStored
       \/ CreateSilo \/ ImportThingspeak \/ UpdateSettings

\* every handler of the process: the ingestion cycle and the routes that
\* change what it reads, each one awaited call at a time
Next == Call \/ Step \/ Route \/ AckReturn

Spec == InitConfigured /\ [][Next]_vars

\* ingestion with the notification fan-out and the live connection registry
NextDispatch == Poll \/ Step \/ Connect

SpecDispatch == Init /\ [][NextDispatch]_vars

\* ingestion alone, over records that differ field by field
NextIngest == Ingest \/ Step

SpecIngest == InitConfigured /\ [][NextIngest]_vars

\* ingestion over records around the silo's limits
NextRules == Rules \/ Step

SpecRules == InitConfigured /\ [][NextRules]_vars

\* the connection registry under its lock, one await at a time
NextLock ==
    Connect \/ Disconnect \/ LockWait \/ lock_resume \/ broadcast \/ BroadcastSend

SpecLock == InitLock /\ [][NextLock]_vars

Lookup == \E p \in Pollers, i \in RaceInputs : \E li \in LastCandidates(i.silo_id) :
              fetch_lookup(p, i.silo_id, i.f, i.env, li)

\* the two ingestion loops running cycles that may overlap
NextRace == Lookup \/ Step

Cleanup == \E p \in Pollers, i \in CleanupInputs : \E li \in LastCandidates(i.silo_id) :
               fetch_lookup(p, i.silo_id, i.f, i.env, li)

\* overlapping cycles whose dispatches push to the stored subscriptions
NextCleanup == Cleanup \/ Step

SpecCleanup == InitConfigured /\ [][NextCleanup]_vars

SpecRace == InitOneReading /\ [][NextRace]_vars

JobStart == \E plan \in JobPlans : job_start(plan)

JobStep ==
    /\ job.state = "running"
    /\ \E i \in JobInputs : \E li \in LastCandidates(JobSilos[job.pc]) :
          job_step(i.f, i.env, li)

\* the scheduler's ingestion job over the configured silos
NextJob == JobStart \/ JobStep \/ Step

SpecJob == InitConfigured /\ [][NextJob]_vars

Parse == \E f \in ParseFeeds : \E li \in LastCandidates("s1") :
             fetch_and_store("s1", f, OkEnv, li)

\* ingestion over records with one field that does not parse
NextParse == Parse \/ Step

SpecParse == InitConfigured /\ [][NextParse]_vars

InTurn == \E i \in SeqInputs : \E li \in LastCandidates(i.silo_id) :
           fetch_and_store(i.silo_id, i.f, i.env, li)

Isolate == \E i \in IsolateInputs : \E li \in LastCandidates(i.silo_id) :
               fetch_and_store(i.silo_id, i.f, i.env, li)

\* cycles with several candidates, from one stored reading
NextIsolate == Isolate \/ Step

SpecIsolate == InitOneReading /\ [][NextIsolate]_vars

\* cycles one after the other, the store answering, from one stored reading
NextSeq == InTurn \/ Step

SpecSeq == InitOneReading /\ [][NextSeq]_vars

\* alert creation and acknowledgment
NextAck == AckPoll \/ Step \/ Ack \/ AckReturn

SpecAck == InitBare /\ [][NextAck]_vars


\* ========================================================== dedup gate claims
ComparisonFields ==
    {"temp_C", "rh_pct", "co2_ppm_est", "mq2_raw", "luminosity_alert", "lux"}

\* equal in every comparison field under exact numeric equality (a NaN equals
\* nothing; absent equals absent only)
SameValues(r1, r2) == \A k \in ComparisonFields : r1[k] = r2[k] /\ r1[k] # NAN

\* the cycle that just ended reached the gate and the lookup returned a reading
GateSawPrior == cycle.op = "fetch_and_store" /\ cycle.lookup = "found"

PriorOf(c) == readings[c.last]

Elapsed(c) == c.doc.timestamp - PriorOf(c).timestamp

\* the cycle's write of the reading did not itself fail
WriteDone(c) == c.outcome # "insert_failed"

\* the cycle that just ended left the reading store as it found it
ReadingsKept == Len(readings) = cycle.readings_before

\* the cycle that just ended added its reading, and nothing else, to the store
Inserted ==
    /\ Len(readings) = cycle.readings_before + 1
    /\ readings[Len(readings)] = cycle.doc

\* C1: a reading equal to the silo's most recent stored reading in every
\* comparison field, and less than the minimum interval after it, is not
\* inserted: the cycle leaves the reading store as it was.
C1_DedupSuppression ==
    (GateSawPrior /\ SameValues(PriorOf(cycle), cycle.doc)
     /\ Elapsed(cycle) < IDENTICAL_READINGS_MIN_SECONDS)
    => ReadingsKept

C1_Witness ==
    /\ GateSawPrior
    /\ SameValues(PriorOf(cycle), cycle.doc)
    /\ Elapsed(cycle) = IDENTICAL_READINGS_MIN_SECONDS - 1
    /\ cycle.outcome = "suppressed"
    /\ Len(readings) = cycle.readings_before

\* C2: a reading equal to the most recent stored reading in every comparison
\* field but more than the minimum interval after it is accepted: the cycle
\* appends it to the reading store (the store write succeeding).
C2_DedupReacceptance ==
    (GateSawPrior /\ SameValues(PriorOf(cycle), cycle.doc)
     /\ Elapsed(cycle) > IDENTICAL_READINGS_MIN_SECONDS)
    => /\ cycle.outcome \in {"stored", "insert_failed"}
       /\ WriteDone(cycle) => Inserted

C2_Witness ==
    /\ GateSawPrior
    /\ SameValues(PriorOf(cycle), cycle.doc)
    /\ Elapsed(cycle) = IDENTICAL_READINGS_MIN_SECONDS + 1
    /\ cycle.outcome = "stored"
    /\ readings[Len(readings)] = cycle.doc
    /\ Len(readings) = cycle.readings_before + 1

\* C3: a reading that differs from the most recent stored reading in at least
\* one comparison field (present against absent included) is accepted and
\* appended whatever the elapsed time, zero and negative included.
C3_DedupChangeDetection ==
    (GateSawPrior /\ ~SameValues(PriorOf(cycle), cycle.doc))
    => /\ cycle.outcome \in {"stored", "insert_failed"}
       /\ WriteDone(cycle) => Inserted

C3_Witness ==
    /\ GateSawPrior
    /\ PriorOf(cycle).co2_ppm_est # NULL /\ cycle.doc.co2_ppm_est = NULL
    /\ \A k \in ComparisonFields \ {"co2_ppm_est"} : PriorOf(cycle)[k] = cycle.doc[k]
    /\ Elapsed(cycle) < 0
    /\ cycle.outcome = "stored"
    /\ readings[Len(readings)] = cycle.doc

\* C4: with no stored reading for the silo, or with the lookup of the most
\* recent reading failing, the cycle goes on to the write and appends the
\* reading (the store write succeeding).
C4_DedupNoUsablePrior ==
    (cycle.op = "fetch_and_store" /\ cycle.lookup \in {"empty", "failed"})
    => /\ cycle.outcome \in {"stored", "insert_failed"}
       /\ WriteDone(cycle) => Inserted

\* the lookup failed while an equal reading of the same instant was stored
C4_Witness ==
    /\ cycle.op = "fetch_and_store" /\ cycle.lookup = "failed"
    /\ cycle.outcome = "stored"
    /\ Len(readings) = cycle.readings_before + 1
    /\ \E i \in 1..cycle.readings_before :
          /\ readings[i].silo_id = cycle.silo_id
          /\ SameValues(readings[i], cycle.doc)
          /\ readings[i].timestamp = cycle.doc.timestamp


\* ============================================================ fan-out claims
Dispatched == {dispatches[i] : i \in DOMAIN dispatches}

\* C5: in one dispatch, a raise or a non-success response of a single channel
\* attempt (chat, email, SMS, one push subscription) is caught: the remaining
\* channels are still attempted and notify_alert does not raise.
C5_FanOutIsolation ==
    \A d \in Dispatched :
        (d.silo_lookup = "ok" /\ d.subs_lookup # "raise")
        => /\ d.telegram # "not_reached"
           /\ d.email # "not_reached"
           /\ d.sms # "not_reached"
           /\ d.subs_lookup = "ok"
           /\ ~d.raised

\* C6: when the email attempt of a dispatch raises, the SMS attempt and the
\* push attempts are made all the same, and the chat, SMS and push outcomes
\* are the ones their own calls gave, as when the email attempt succeeds;
\* the dispatch then ends as it does without the failure.
C6_EmailFailureIsolation ==
    \A d \in Dispatched :
        d.email = "raise"
        => /\ d.telegram = ChannelStatus(TRUE, Destination(d.silo, "telegram_chat_id"),
                                         creds.telegram, d.env.telegram)
           /\ d.sms = ChannelStatus(TRUE, Destination(d.silo, "phone"),
                                    creds.twilio, d.env.sms)
           /\ d.subs_lookup = d.env.subs_find
           /\ d.subs_lookup = "ok"
                => /\ DOMAIN d.push = Scope(d.subs_seen, d.silo_id)
                   /\ \A s \in DOMAIN d.push :
                         /\ d.push[s] = ChannelStatus(TRUE, TRUE, creds.vapid,
                                                      d.env.push[s.endpoint])
                         /\ s \in d.deleted
                              <=> (PushFailed(d.push[s]) /\ d.env.delete = "ok")
                   /\ d.payload # "not_reached"
                   /\ ~d.raised

C6_Witness ==
    \E d \in Dispatched :
        /\ d.email = "raise"
        /\ d.telegram = "ok" /\ d.sms = "http_error"
        /\ \E s \in DOMAIN d.push : d.push[s] = "gone"
        /\ \E s \in DOMAIN d.push : d.push[s] = "ok"
        /\ d.payload # "not_reached"

\* C7: every alert an ingestion cycle persisted, by the luminosity detector or
\* by the threshold rules, is handed to notify_alert in that cycle.
C7_PersistedAlertsDispatched ==
    cycle.op = "fetch_and_store"
    => \A a \in (cycle.alerts_before + 1)..Len(alerts) :
          \E d \in Dispatched : d.alert = a

\* C8: a push delivery that fails with a transient outcome leaves the
\* subscription in the store.
C8_TransientKeepsSubscription ==
    \A d \in Dispatched : \A s \in DOMAIN d.push :
        d.push[s] = "transient" => s \notin d.deleted /\ s \in push_subscriptions

\* the dispatches that have ended, of the cycle that just ended and of the
\* cycles in progress
EndedDispatches ==
    Dispatched \cup UNION { {c.log[i] : i \in DOMAIN c.log} : c \in inflight }

\* the pushes a dispatch in progress has behind it: the subscription and the
\* record of the dispatch, but for the push whose delete_one is still awaited
PushesBehind ==
    UNION { { [s |-> x, d |-> c.d] :
                x \in {y \in DOMAIN c.d.push : ~(c.pc = "delete" /\ Head(c.queue) = y)} } :
            c \in inflight }

\* C9: a subscription whose push delivery reported the endpoint gone is
\* deleted (the store's delete succeeding): once its delete_one has returned
\* it is out of the store, nothing puts it back, and a subscription lookup of
\* any cycle, the overlapping ones included, returns only stored ones.
C9_PushCleanup ==
    /\ [](\A d \in EndedDispatches : \A s \in DOMAIN d.push :
            (d.push[s] = "gone" /\ d.env.delete = "ok")
            => s \in d.deleted /\ s \notin push_subscriptions)
    /\ [](\A p \in PushesBehind :
            (p.d.push[p.s] = "gone" /\ p.d.env.delete = "ok")
            => p.s \in p.d.deleted /\ p.s \notin push_subscriptions)
    /\ [][\A s \in Subscriptions :
            s \notin push_subscriptions => s \notin push_subscriptions']_vars
    /\ [][(cycle'.op = "fetch_step" /\ cycle'.step = "subs_find")
          => \A c \in inflight' :
                (c.poller = cycle'.poller /\ c.pc = "push")
                => /\ {c.queue[i] : i \in DOMAIN c.queue} \subseteq push_subscriptions
                   /\ c.d.subs_seen = push_subscriptions]_vars

\* a cycle deleted the global subscription, reported gone, while the dispatch
\* of an overlapping cycle was between its entry and its subscription lookup:
\* that lookup returned the silo's subscription only
C9_Witness ==
    \E d \in Dispatched : \E s \in d.subs_before :
        /\ s.silo_id = GLOBAL
        /\ d.subs_lookup = "ok"
        /\ d.env.push[s.endpoint] = "ok"
        /\ s \notin d.subs_seen
        /\ DOMAIN d.push # {}
        /\ s \notin DOMAIN d.push
        /\ s \notin push_subscriptions

\* ==================================================== acknowledgment claims
\* C10: acknowledging an alert that is already acknowledged leaves its ack_by
\* and ack_at as the first acknowledgment set them.
C10_AckIdempotence ==
    [][ \A i \in DOMAIN alerts :
          alerts[i].acknowledged
          => /\ alerts'[i].ack_by = alerts[i].ack_by
             /\ alerts'[i].ack_at = alerts[i].ack_at ]_vars

\* C11: alerts are created unacknowledged, an acknowledged alert never goes
\* back to unacknowledged, no stored alert is removed, and a stored alert
\* changes only by the acknowledgment of that alert.
C11_AckMonotonic ==
    [][ /\ Len(alerts') >= Len(alerts)
        /\ \A i \in DOMAIN alerts :
              /\ alerts[i].acknowledged => alerts'[i].acknowledged
              /\ alerts'[i] # alerts[i]
                    => cycle'.op = "ack_alert" /\ cycle'.alert = i
        /\ \A i \in DOMAIN alerts' \ DOMAIN alerts : ~alerts'[i].acknowledged ]_vars

\* an ingestion cycle created alerts while an earlier alert was acknowledged
C11_Witness ==
    /\ cycle.op = "fetch_and_store"
    /\ Len(alerts) > cycle.alerts_before
    /\ \E i \in 1..cycle.alerts_before : alerts[i].acknowledged /\ alerts[i].ack_by \in Users
    /\ \A i \in (cycle.alerts_before + 1)..Len(alerts) : ~alerts[i].acknowledged


\* ======================================================= detection claims
\* the cycle that just ended wrote its reading
Accepted == cycle.op = "fetch_and_store" /\ cycle.outcome = "stored"

NewEvents == SubSeq(silo_events, cycle.events_before + 1, Len(silo_events))

NewAlertsOf(rule) ==
    {i \in (cycle.alerts_before + 1)..Len(alerts) : alerts[i].rule = rule}

\* prior lux at or under the dark threshold, current lux at or over the open one
TransitionHolds(prior, doc) ==
    /\ IsNumber(prior.lux) /\ IsNumber(doc.lux)
    /\ prior.lux <= LUMINOSITY_DARK_THRESHOLD
    /\ doc.lux >= LUMINOSITY_OPEN_THRESHOLD

\* C12: an accepted reading with a prior stored reading creates exactly one
\* "silo_opened" event and exactly one warning alert of the transition when
\* prior lux <= dark threshold and current lux >= open threshold (the two
\* writes succeeding); in every other accepted cycle (prior not dark, current
\* not open, a lux absent, no prior reading) it creates neither.
C12_SiloOpenedTransition ==
    Accepted
    => LET fires == /\ cycle.lookup = "found"
                    /\ TransitionHolds(readings[cycle.last], cycle.doc)
       IN  /\ (fires /\ cycle.env.insert_event = "ok" /\ cycle.env.insert_alert = "ok")
                => /\ Len(NewEvents) = 1
                   /\ NewEvents[1].event_type = "silo_opened"
                   /\ NewEvents[1].prev_lux = readings[cycle.last].lux
                   /\ NewEvents[1].lux = cycle.doc.lux
                   /\ Cardinality(NewAlertsOf("silo_opened")) = 1
                   /\ \A i \in NewAlertsOf("silo_opened") : alerts[i].level = "warning"
           /\ ~fires => NewEvents = <<>> /\ NewAlertsOf("silo_opened") = {}

\* the transition at both thresholds exactly
C12_Witness ==
    /\ Accepted /\ cycle.lookup = "found"
    /\ readings[cycle.last].lux = LUMINOSITY_DARK_THRESHOLD
    /\ cycle.doc.lux = LUMINOSITY_OPEN_THRESHOLD
    /\ Len(NewEvents) = 1
    /\ Cardinality(NewAlertsOf("silo_opened")) = 1

\* C13: an accepted reading whose luminosity alert flag is 1 creates exactly
\* one critical fire alert in that cycle (the alert store taking writes),
\* whatever the lux values and whether or not the transition rule fired or
\* its writes succeeded; any other flag creates none.
C13_ImmediateFireFlag ==
    Accepted
    => IF cycle.doc.luminosity_alert = 1
       THEN cycle.env.insert_alert = "ok"
            => /\ Cardinality(NewAlertsOf("fire_flag")) = 1
               /\ \A i \in NewAlertsOf("fire_flag") : alerts[i].level = "critical"
       ELSE NewAlertsOf("fire_flag") = {}

Metrics ==
    { [rule |-> "temperature", field |-> "temp_C", limit |-> "max_temp"],
      [rule |-> "humidity", field |-> "rh_pct", limit |-> "max_humidity"],
      [rule |-> "gas", field |-> "co2_ppm_est", limit |-> "max_gas"] }

\* the limit is set, the value is a number, and the value is over the limit
Exceeds(value, limit) == limit # NULL /\ IsNumber(value) /\ value > limit

\* C14: for an accepted reading and each of temperature, humidity and gas on
\* its own, the cycle persists one critical alert when the silo's limit is
\* set, the value is present and the value is strictly over the limit, and
\* none otherwise (the rules running and the alert store taking writes); k
\* breached metrics give k threshold alerts.
C14_ThresholdPerMetric ==
    (Accepted /\ cycle.env.rules = "ok" /\ cycle.env.insert_alert = "ok")
    => \A m \in Metrics :
          LET mine == NewAlertsOf(m.rule)
              over == Exceeds(cycle.doc[m.field], silos[cycle.silo_id].thresholds[m.limit])
          IN  /\ Cardinality(mine) = IF over THEN 1 ELSE 0
              /\ \A i \in mine : alerts[i].level = "critical"

\* temperature and gas over their limits, humidity exactly at its limit
C14_Witness ==
    /\ Accepted
    /\ cycle.doc.temp_C = 31 /\ cycle.doc.rh_pct = 80 /\ cycle.doc.co2_ppm_est = 801
    /\ silos[cycle.silo_id].thresholds = [max_temp |-> 30, max_humidity |-> 80, max_gas |-> 800]
    /\ Len(alerts) = cycle.alerts_before + 2
    /\ Cardinality(NewAlertsOf("temperature")) = 1
    /\ Cardinality(NewAlertsOf("gas")) = 1


\* ============================================ broadcast and registry claims
ListenersOf(conns) == {conns[i] : i \in DOMAIN conns}

\* C15: in every dispatch (the silo and subscription lookups answering),
\* whatever the outcomes of the chat, email, SMS and push attempts, the alert
\* event is sent to every listener registered at the time of the dispatch.
C15_BroadcastFollowsFanOut ==
    \A d \in Dispatched :
        (d.silo_lookup = "ok" /\ d.env.subs_find = "ok")
        => d.broadcast = ListenersOf(d.conns_before)

\* C16: no dispatch propagates an exception to its caller, whichever of the
\* silo lookup, the chat, email, SMS and push attempts and the live broadcast
\* fail.
C16_DispatchNeverEscalates == \A d \in Dispatched : ~d.raised

\* C17: a broadcast sends to the listeners active at its start, one after
\* the other and each one once; when it ends, the listeners whose send failed
\* are out of the active set and the listeners whose send succeeded are
\* still in it, in their order.
C17_BroadcastFailureHandling ==
    /\ [][ cycle'.op = "broadcast_send"
           => /\ cycle'.listener = mgr.snapshot[mgr.idx]
              /\ cycle'.snapshot = mgr.snapshot
              /\ ~cycle'.ended => mgr'.idx = mgr.idx + 1 /\ mgr'.snapshot = mgr.snapshot
              /\ cycle'.ended <=> mgr.idx = Len(mgr.snapshot)
              /\ mgr.idx = 1 => mgr.snapshot = active_connections ]_vars
    /\ [](cycle.op = "broadcast_send" /\ cycle.ended
          => active_connections
               = SelectSeq(cycle.snapshot, LAMBDA w : w \notin cycle.failed))

\* a broadcast that waited for the lock: the first listener of its snapshot
\* fails, the one after it is kept
C17_Witness ==
    /\ cycle.op = "broadcast_send" /\ cycle.ended /\ cycle.waited
    /\ cycle.snapshot = <<"w1", "w2">>
    /\ cycle.failed = {"w1"}
    /\ cycle.listener = "w2" /\ cycle.outcome = "ok"
    /\ active_connections = <<"w2">>

\* C18: connect(w) leaves w in the active set; disconnect(w) leaves w out of
\* it and every other listener where it was; disconnect of a listener that
\* is not in the set changes nothing; this holds for a call that ran at once
\* and for one that waited for the lock behind a broadcast, and apart from
\* these calls only a broadcast's removal of failed listeners changes the set.
C18_ConnectDisconnect ==
    [][ LET call == IF cycle'.op = "lock_resume" THEN cycle'.call
                    ELSE [kind |-> cycle'.op, listener |->
                            IF cycle'.op \in {"connect", "disconnect"}
                            THEN cycle'.listener ELSE "none"]
            before == ListenersOf(active_connections)
            after == ListenersOf(active_connections')
        IN  /\ call.kind = "connect"
                => call.listener \in after /\ after = before \cup {call.listener}
            /\ call.kind = "disconnect"
                => /\ call.listener \notin after
                   /\ after = before \ {call.listener}
                   /\ call.listener \notin before => active_connections' = active_connections
                   /\ active_connections'
                        = SelectSeq(active_connections, LAMBDA w : w # call.listener)
            /\ call.kind \notin {"connect", "disconnect"}
                => /\ after \subseteq before
                   /\ after # before => cycle'.op = "broadcast_send" /\ cycle'.ended
      ]_vars

\* a disconnect that waited for the lock behind a broadcast and, when it
\* ran, found its listener already removed and another one active
C18_Witness ==
    /\ cycle.op = "lock_resume"
    /\ cycle.call.kind = "disconnect"
    /\ ~cycle.present
    /\ active_connections # <<>>
    /\ cycle.call.listener \notin ListenersOf(active_connections)


\* ===================================================== failure containment
\* C19: no ingestion cycle propagates an exception to the scheduler, and a
\* cycle in which the reading store refuses the write leaves every store as
\* it was and makes no dispatch.
C19_NothingFatal ==
    cycle.op = "fetch_and_store"
    => /\ ~cycle.raised
       /\ cycle.env.insert_reading # "ok"
            => /\ ReadingsKept
               /\ Len(silo_events) = cycle.events_before
               /\ Len(alerts) = cycle.alerts_before
               /\ push_subscriptions = cycle.subs_before
               /\ dispatches = <<>>
               /\ inflight = {}

\* the database down, on a record that would open the silo, raise the fire
\* flag and breach two limits
C19_Witness ==
    /\ cycle.op = "fetch_and_store"
    /\ cycle.env = StoreDown
    /\ cycle.outcome = "insert_failed"
    /\ cycle.doc.luminosity_alert = 1 /\ cycle.doc.temp_C = 35
    /\ Len(readings) = cycle.readings_before /\ cycle.readings_before > 0
    /\ Len(alerts) = cycle.alerts_before
    /\ dispatches = <<>>

\* what an outbound call that was made can report
CallOutcomes == {"ok", "raise", "http_error", "gone", "transient"}

\* C20: a channel whose credentials are not configured makes no outbound
\* call, raises nothing and deletes no subscription, and the steps after it
\* in the dispatch are reached as they are when it succeeds.
C20_MissingCredentials ==
    \A d \in Dispatched :
        /\ (~creds.telegram /\ d.silo_lookup = "ok")
              => d.telegram \notin CallOutcomes /\ d.email # "not_reached"
        /\ (~creds.smtp /\ d.email # "not_reached")
              => d.email \notin CallOutcomes /\ d.sms # "not_reached"
        /\ (~creds.twilio /\ d.sms # "not_reached")
              => d.sms \notin CallOutcomes /\ d.subs_lookup # "not_reached"
        /\ (~creds.vapid /\ d.subs_lookup = "ok")
              => /\ \A s \in DOMAIN d.push : d.push[s] \notin CallOutcomes
                 /\ d.deleted = {} /\ d.subs = d.subs_before
                 /\ d.payload # "not_reached"
                 /\ ~d.raised

\* no credential configured, on a dispatch whose chat call would have raised
\* or whose push endpoint would have been reported gone
C20_Witness ==
    /\ creds = NoCreds
    /\ push_subscriptions = Subscriptions
    /\ \E d \in Dispatched :
          /\ d.env.telegram = "raise" \/ d.env.push["e1"] = "gone"
          /\ d.telegram = "disabled" /\ d.email = "disabled" /\ d.sms = "disabled"
          /\ DOMAIN d.push = Subscriptions
          /\ \A s \in DOMAIN d.push : d.push[s] = "disabled"
          /\ d.deleted = {} /\ ~d.raised


\* ================================================== dedup gate, continued
\* C21: a reading equal to the most recent stored reading in every comparison
\* field is stored only when the time elapsed since that reading is strictly
\* over the minimum interval; at exactly the interval, or under it, the
\* reading store is left as it was.
C21_DedupBoundary ==
    (GateSawPrior /\ SameValues(PriorOf(cycle), cycle.doc))
    => (~ReadingsKept => Elapsed(cycle) > IDENTICAL_READINGS_MIN_SECONDS)

\* C22: a cycle whose reading the dedup gate suppresses (equal in every
\* comparison field to the most recent stored reading and under the minimum
\* interval after it) creates no event and no alert, makes no dispatch and no
\* broadcast, and deletes no subscription.
C22_DetectionOnlyOnAccepted ==
    (GateSawPrior /\ SameValues(PriorOf(cycle), cycle.doc)
     /\ Elapsed(cycle) < IDENTICAL_READINGS_MIN_SECONDS)
    => /\ Len(silo_events) = cycle.events_before
       /\ Len(alerts) = cycle.alerts_before
       /\ dispatches = <<>>
       /\ push_subscriptions = cycle.subs_before
       /\ inflight = {}

\* a suppressed reading over the temperature limit, whose first copy raised
\* an alert
C22_Witness ==
    /\ GateSawPrior /\ cycle.outcome = "suppressed"
    /\ cycle.doc.temp_C = 35
    /\ silos[cycle.silo_id].thresholds.max_temp = 30
    /\ cycle.alerts_before > 0
    /\ Len(alerts) = cycle.alerts_before
    /\ Len(silo_events) = cycle.events_before
    /\ dispatches = <<>>


\* ======================================================== concurrency claims
\* C23: while a send of a broadcast is pending the registry lock is not held,
\* so no connect or disconnect is waiting behind it.
C23_LockFreeDuringSends ==
    mgr.pc = "sending" => (mgr.lock = "free" /\ mgr.waiters = <<>>)

\* C24: with cycles that overlap, every step leaves each stored reading as
\* it was and adds at most one reading, the one of a cycle in progress; two
\* cycles that looked up the same last reading leave at most two copies of
\* the new reading, that is one duplicate.
C24_DedupRaceBounded ==
    [][ /\ \/ readings' = readings
           \/ /\ Len(readings') = Len(readings) + 1
              /\ SubSeq(readings', 1, Len(readings)) = readings
              /\ \E c \in inflight : c.seen.doc = readings'[Len(readings')]
        /\ cycle'.op = "fetch_and_store"
            => Cardinality({ i \in (cycle'.readings_before + 1)..Len(readings') :
                               readings'[i] = cycle'.doc }) <= 2 ]_vars

\* both cycles looked up the same last reading and both stored the record
C24_Witness ==
    /\ cycle.op = "fetch_and_store" /\ cycle.outcome = "stored"
    /\ cycle.lookup = "found" /\ cycle.last = cycle.readings_before
    /\ Len(readings) = cycle.readings_before + 2
    /\ readings[Len(readings)] = cycle.doc
    /\ readings[Len(readings) - 1] = cycle.doc
    /\ SameValues(readings[cycle.last], cycle.doc)


\* ================================================ fan-out claims, continued
Channels == {"telegram", "email", "sms"}

DestinationField(ch) ==
    IF ch = "telegram" THEN "telegram_chat_id" ELSE IF ch = "email" THEN "email" ELSE "phone"

\* the silo document exists and names a destination for the channel
HasDestination(silo_id, ch) ==
    silos[silo_id].exists /\ silos[silo_id].responsible[DestinationField(ch)]

\* the channel's adapter was called in the dispatch
Attempted(d, ch) == d[ch] \notin {"not_reached", "no_destination"}

\* C25: in a dispatch whose silo lookup answered, the adapter of each of
\* chat, email and SMS is called (once) exactly when the silo names a
\* destination for it; a channel without destination, or a missing silo,
\* gets no call.
C25_OneAttemptPerDestination ==
    \A d \in Dispatched :
        d.silo_lookup = "ok"
        => \A ch \in Channels : Attempted(d, ch) <=> HasDestination(d.silo_id, ch)


\* ========================================================= scheduler claims
\* C26: when a run of the ingestion job has ended, every configured silo
\* that has its API key and whose own lookup answered has had its ingestion
\* attempted, whatever happened to the silos before it in the run.
C26_PerSiloIndependence ==
    job.state = "finished"
    => \A k \in SiloIds :
          (job.plan[k].key = "ok" /\ job.plan[k].silo_find = "ok") => k \in job.attempted


\* ======================================================= normalizer claims
\* temperature or humidity is text that is no number, or the source
\* timestamp is missing or malformed
RequiredUnparsable(f) ==
    f.field1 = BAD \/ f.field2 = BAD \/ f.created_at \in {BAD, NULL, EMPTY, NAN}

FloatUnparsable(x) == x \in {BAD, EMPTY}

IntUnparsable(x) == x \in {BAD, EMPTY, NAN}

\* C27: a record whose temperature, humidity or timestamp cannot be parsed
\* leaves every store as it was, makes no dispatch and raises nothing; a
\* record whose required fields parse is not rejected, and when it is stored
\* each optional field that did not parse is absent and raw is the record
\* as received.
C27_RecordRejection ==
    (cycle.op = "fetch_and_store" /\ cycle.env.http = "ok")
    => LET f == cycle.doc.raw
       IN  /\ RequiredUnparsable(f)
                => /\ cycle.outcome = "rejected" /\ ~cycle.raised
                   /\ ReadingsKept
                   /\ Len(silo_events) = cycle.events_before
                   /\ Len(alerts) = cycle.alerts_before
                   /\ dispatches = <<>>
                   /\ inflight = {}
           /\ ~RequiredUnparsable(f)
                => /\ cycle.outcome # "rejected"
                   /\ cycle.outcome = "stored"
                        => LET r == readings[Len(readings)]
                           IN  /\ Len(readings) = cycle.readings_before + 1
                               /\ r.raw = f
                               /\ FloatUnparsable(f.field3) => r.co2_ppm_est = NULL
                               /\ IntUnparsable(f.field4) => r.mq2_raw = NULL
                               /\ IntUnparsable(f.field5) => r.luminosity_alert = NULL
                               /\ FloatUnparsable(f.field6) => r.lux = NULL

\* a record with unparsable temperature is rejected after one with an
\* unparsable optional field was stored without that field
C27_Witness ==
    /\ cycle.op = "fetch_and_store" /\ cycle.outcome = "rejected"
    /\ cycle.doc.raw.field2 = BAD
    /\ Len(readings) = cycle.readings_before
    /\ \E i \in DOMAIN readings :
          readings[i].raw.field6 = BAD /\ readings[i].lux = NULL


\* ===================================================== dedup gate invariant
IndicesOf(s) == {i \in DOMAIN readings : readings[i].silo_id = s}

\* the silo's readings were inserted in the order of their timestamps
NonDecreasing(s) ==
    \A i, j \in IndicesOf(s) : i < j => readings[i].timestamp <= readings[j].timestamp

\* j is the silo's next insert after i
Successive(s, i, j) ==
    /\ i \in IndicesOf(s) /\ j \in IndicesOf(s) /\ i < j
    /\ \A k \in IndicesOf(s) : ~(i < k /\ k < j)

\* C28: with cycles that do not overlap, the store answering and timestamps
\* that never go back, no two readings of a silo inserted one directly after
\* the other are equal in every comparison field and less than the minimum
\* interval apart.
C28_DedupInvariant ==
    \A s \in SiloIds :
        NonDecreasing(s)
        => \A i, j \in IndicesOf(s) :
              Successive(s, i, j)
              => ~( /\ SameValues(readings[i], readings[j])
                    /\ readings[j].timestamp - readings[i].timestamp
                         < IDENTICAL_READINGS_MIN_SECONDS )


\* ================================================ persistence and dispatch
\* the alerts the last cycle inserted
InsertedThisCycle == (cycle.alerts_before + 1)..Len(alerts)

\* C29: in an ingestion cycle, every alert handed to notify_alert is one the
\* cycle inserted into the alert store before, each one dispatched once and
\* in the order of insertion; when the insert fails, nothing is dispatched to
\* any channel or listener.
C29_PersistBeforeDispatch ==
    cycle.op = "fetch_and_store"
    => /\ \A k \in DOMAIN dispatches :
             /\ dispatches[k].alert \in InsertedThisCycle
             /\ alerts[dispatches[k].alert].silo_id = cycle.silo_id
             /\ \A l \in DOMAIN dispatches :
                    k < l => dispatches[k].alert < dispatches[l].alert
       /\ cycle.env.insert_alert = "raise"
            => /\ dispatches = <<>>
               /\ InsertedThisCycle = {}

\* a reading over its limits is stored, the alert store refuses the insert,
\* and no dispatch happens
C29_Witness ==
    /\ Accepted
    /\ cycle.env.insert_alert = "raise"
    /\ cycle.env.rules = "ok"
    /\ \E m \in Metrics :
          Exceeds(cycle.doc[m.field], silos[cycle.silo_id].thresholds[m.limit])
    /\ dispatches = <<>>
    /\ Len(alerts) = cycle.alerts_before


\* the dispatches of the last cycle for the alerts it created of one rule
DispatchesOf(rule) == {d \in Dispatched : d.alert \in NewAlertsOf(rule)}

\* C30: when an accepted reading yields several candidates, each candidate
\* after one whose insert or dispatch failed (an exception leaving
\* notify_alert included) is still persisted and dispatched, and the
\* candidates of the threshold rules are processed whether or not the
\* luminosity step failed.
C30_PerAlertIsolation ==
    (Accepted /\ cycle.env.rules = "ok" /\ cycle.env.insert_alert \in {"ok", "recovers"})
    => LET cands == Candidates(cycle.doc, cycle.env)
           first == IF cycle.env.insert_alert = "ok" THEN 1 ELSE 2
       IN  \A k \in first..Len(cands) :
              /\ Cardinality(NewAlertsOf(cands[k])) = 1
              /\ Cardinality(DispatchesOf(cands[k])) = 1

\* an opening transition whose event write failed, two candidates, the
\* dispatch of the first raising, and the second persisted and dispatched
C30_Witness ==
    /\ Accepted
    /\ cycle.last # 0
    /\ TransitionHolds(readings[cycle.last], cycle.doc)
    /\ cycle.env.insert_event = "raise"
    /\ NewEvents = <<>>
    /\ Candidates(cycle.doc, cycle.env) = <<"temperature", "gas">>
    /\ \E d \in DispatchesOf("temperature") : d.raised
    /\ \E d \in DispatchesOf("gas") : d.raised

====
